---- MODULE Spec2Model ----
(***************************************************************************)
(* State-machine model of the w3b_protocol on-chain program (V2):          *)
(* programs/w3b_protocol/programs/w3b_protocol/src/lib.rs.                 *)
(*                                                                         *)
(* Every instruction is one action.  An instruction is a transaction: it   *)
(* either commits all of its writes or, on any error, none of them.  The   *)
(* variable `result` records the last instruction submitted: its name, its *)
(* signer, its arguments, the error it ended with ("Ok" on success) and    *)
(* the event it emitted.                                                   *)
(*                                                                         *)
(* Account validation follows the order of the generated try_accounts:     *)
(* first every account is deserialized in field order (an `init` account   *)
(* is created there), then the constraints run in field order, then the    *)
(* handler body runs.                                                      *)
(***************************************************************************)
EXTENDS Integers, Sequences, FiniteSets, TLC

VARIABLES state, profiles, requests, now, result

vars == <<state, profiles, requests, now, result>>

----------------------------------------------------------------------------
(* Machine integers and raw bytes *)

\* Largest value of the unsigned counters (u64 in the source).  The width is
\* scaled down so that the checked-arithmetic failures are reachable.
U64_MAX == 1073741823

\* Deployment time of the record: all clock readings are at or after it.
T0 == 1700000000

Byte == 0..255

Pow256 == <<1, 256, 65536, 16777216>>

\* u64::to_le_bytes / i64::to_le_bytes (values below 2^31)
LeBytes8(n) == [i \in 1..8 |-> IF i <= 4 THEN (n \div Pow256[i]) % 256 ELSE 0]

\* u64::from_le_bytes / i64::from_le_bytes
FromLeBytes8(b) == b[1] + b[2] * 256 + b[3] * 65536 + b[4] * 16777216

\* u16 little endian
LeBytes2(n) == <<n % 256, (n \div 256) % 256>>

FromLeBytes2(b) == b[1] + b[2] * 256

\* Rust slice data[a..b] (0-based, b exclusive)
Slice(data, a, b) == SubSeq(data, a + 1, b)

\* n zero bytes
Zeros(n) == [i \in 1..n |-> 0]

\* A 32-byte public key whose first byte is k
Pk(k) == [i \in 1..32 |-> IF i = 1 THEN k ELSE 0]

\* Pubkey::default(): the value of a never-written key field
DefaultKey == Pk(0)

AUTHORITY == Pk(1)
HOT == Pk(2)
ALICE == Pk(3)
BOB == Pk(4)
W3B_MINT == Pk(5)
TREASURY == Pk(6)

\* The canonical bump of the protocol_state address
BUMP == 255

\* Length of the protocol_state account (space = 8 + 512)
STATE_SPACE == 8 + 512

\* The 8-byte account discriminator of ProtocolState
Discriminator == <<11, 12, 13, 14, 15, 16, 17, 18>>

ZeroRoot == Zeros(32)

\* 48 hours, in seconds
PROOF_MAX_AGE == 48 * 3600

\* max tokens per purchase
BUY_CAP == 1000

----------------------------------------------------------------------------
(* ProtocolState: the typed view and its persisted V2 layout *)

\* Borsh layout of #[account] ProtocolState after the discriminator
EncodeV2(s) ==
  Discriminator \o s.authority \o s.operator \o s.w3b_mint \o s.treasury
    \o LeBytes8(s.total_supply) \o LeBytes8(s.total_burned)
    \o s.current_merkle_root \o LeBytes8(s.proven_reserves)
    \o LeBytes8(s.last_root_update) \o LeBytes8(s.last_proof_timestamp)
    \o LeBytes8(s.w3b_price_lamports) \o s.sol_receiver
    \o LeBytes2(s.yield_apy_bps) \o LeBytes8(s.total_yield_distributed)
    \o LeBytes8(s.last_yield_distribution) \o <<s.is_paused, s.bump>>
    \o Zeros(STATE_SPACE - 268)

DecodeV2(data) ==
  [authority |-> Slice(data, 8, 40),
   operator |-> Slice(data, 40, 72),
   w3b_mint |-> Slice(data, 72, 104),
   treasury |-> Slice(data, 104, 136),
   total_supply |-> FromLeBytes8(Slice(data, 136, 144)),
   total_burned |-> FromLeBytes8(Slice(data, 144, 152)),
   current_merkle_root |-> Slice(data, 152, 184),
   proven_reserves |-> FromLeBytes8(Slice(data, 184, 192)),
   last_root_update |-> FromLeBytes8(Slice(data, 192, 200)),
   last_proof_timestamp |-> FromLeBytes8(Slice(data, 200, 208)),
   w3b_price_lamports |-> FromLeBytes8(Slice(data, 208, 216)),
   sol_receiver |-> Slice(data, 216, 248),
   yield_apy_bps |-> FromLeBytes2(Slice(data, 248, 250)),
   total_yield_distributed |-> FromLeBytes8(Slice(data, 250, 258)),
   last_yield_distribution |-> FromLeBytes8(Slice(data, 258, 266)),
   is_paused |-> data[267],
   bump |-> data[268]]

\* The record written by initialize_v2 (fields it does not assign keep the
\* zero of the freshly created account)
InitializeV2State ==
  [authority |-> AUTHORITY,
   operator |-> AUTHORITY,
   w3b_mint |-> W3B_MINT,
   treasury |-> TREASURY,
   total_supply |-> 0,
   total_burned |-> 0,
   current_merkle_root |-> ZeroRoot,
   proven_reserves |-> 0,
   last_root_update |-> 0,
   last_proof_timestamp |-> 0,
   w3b_price_lamports |-> 0,
   sol_receiver |-> AUTHORITY,
   yield_apy_bps |-> 0,
   total_yield_distributed |-> 0,
   last_yield_distribution |-> 0,
   is_paused |-> 0,
   bump |-> BUMP]

\* The record of the last submitted instruction
Res(op, caller, amount, id, target, err, event) ==
  [op |-> op, caller |-> caller, amount |-> amount, id |-> id,
   target |-> target, err |-> err, event |-> event]

NoRequests == [k \in {} |-> 0]

\* No instruction is in flight
NoResult == Res("none", DefaultKey, 0, 0, DefaultKey, "Ok", "none")

Idle == result = NoResult

\* The outcome of the instruction is handed back to its caller
Return ==
  /\ ~Idle
  /\ result' = NoResult
  /\ UNCHANGED <<state, profiles, requests, now>>

Init ==
  /\ state = InitializeV2State
  /\ profiles = [k \in {} |-> 0]
  /\ requests = NoRequests
  /\ now = T0
  /\ result = Res("initialize_v2", AUTHORITY, 0, 0, DefaultKey, "Ok", "none")

----------------------------------------------------------------------------
(* Account validation shared by the instruction contexts *)

\* Account<ProtocolState>: Borsh rejects a bool byte other than 0 or 1
DeserializeErr == IF state.is_paused \in {0, 1} THEN "Ok" ELSE "AccountDidNotDeserialize"

\* seeds = [b"protocol_state"], bump = protocol_state.bump
SeedsErr == IF state.bump = BUMP THEN "Ok" ELSE "ConstraintSeeds"

\* The first error of a list of checks, "Ok" when there is none
FirstErr(errs) ==
  IF \A i \in 1..Len(errs) : errs[i] = "Ok" THEN "Ok"
  ELSE errs[CHOOSE i \in 1..Len(errs) :
              errs[i] # "Ok" /\ \A j \in 1..(i - 1) : errs[j] = "Ok"]

\* operator.key() == protocol_state.operator || operator.key() == protocol_state.authority
IsOperator(caller) == caller = state.operator \/ caller = state.authority

\* has_one = authority
IsAuthority(caller) == caller = state.authority

\* #[derive(Accounts)] OperatorOnly
OperatorOnly(caller) ==
  FirstErr(<<DeserializeErr, SeedsErr,
             IF IsOperator(caller) THEN "Ok" ELSE "Unauthorized">>)

\* #[derive(Accounts)] AdminOnly
AdminOnly(caller) ==
  FirstErr(<<DeserializeErr, SeedsErr,
             IF IsAuthority(caller) THEN "Ok" ELSE "ConstraintHasOne">>)

----------------------------------------------------------------------------
(* Admin / migration *)

\* set_operator(new_operator), AdminOnly
set_operator(caller, new_operator) ==
  LET err == AdminOnly(caller) IN
  /\ state' = IF err = "Ok" THEN [state EXCEPT !.operator = new_operator] ELSE state
  /\ result' = Res("set_operator", caller, 0, 0, new_operator, err, "none")
  /\ UNCHANGED <<profiles, requests, now>>

\* Variant of the byte rewrite: total_supply and proven_reserves are read at
\* each other's V1 offset
FixV2LayoutSwapped(data) ==
  LET authority_key == Slice(data, 8, 40)
      w3b_mint == Slice(data, 40, 72)
      treasury == Slice(data, 72, 104)
      merkle_root == Slice(data, 104, 136)
      last_root_update == Slice(data, 136, 144)
      last_proof_timestamp == Slice(data, 144, 152)
      proven_reserves == Slice(data, 160, 168)
      total_supply == Slice(data, 152, 160)
      is_paused == data[169]
      bump == data[170]
      w3b_price_lamports == Slice(data, 170, 178)
      sol_receiver == Slice(data, 178, 210)
  IN Slice(data, 0, 8) \o authority_key \o authority_key \o w3b_mint \o treasury
       \o total_supply \o Zeros(8) \o merkle_root \o proven_reserves
       \o last_root_update \o last_proof_timestamp \o w3b_price_lamports
       \o sol_receiver \o Zeros(18) \o <<is_paused, bump>>
       \o Zeros(Len(data) - 268)

\* The byte rewrite of fix_v2_layout: every field is read at its V1 offset,
\* the buffer after the discriminator is zeroed, and every field is written
\* at its V2 offset.  The writes are disjoint, so the buffer they leave is the
\* concatenation of the written fields and of the zeros between them.
FixV2Layout(data) ==
  LET authority_key == Slice(data, 8, 40)
      w3b_mint == Slice(data, 40, 72)
      treasury == Slice(data, 72, 104)
      merkle_root == Slice(data, 104, 136)
      last_root_update == Slice(data, 136, 144)
      last_proof_timestamp == Slice(data, 144, 152)
      proven_reserves == Slice(data, 152, 160)
      total_supply == Slice(data, 160, 168)
      is_paused == data[169]
      bump == data[170]
      w3b_price_lamports == Slice(data, 170, 178)
      sol_receiver == Slice(data, 178, 210)
  IN Slice(data, 0, 8)           \* [0..8]     discriminator, preserved
       \o authority_key          \* [8..40]    authority
       \o authority_key          \* [40..72]   operator = authority
       \o w3b_mint               \* [72..104]  w3b_mint
       \o treasury               \* [104..136] treasury
       \o total_supply           \* [136..144] total_supply
       \o Zeros(8)               \* [144..152] total_burned, zeroed
       \o merkle_root            \* [152..184] current_merkle_root
       \o proven_reserves        \* [184..192] proven_reserves
       \o last_root_update       \* [192..200] last_root_update
       \o last_proof_timestamp   \* [200..208] last_proof_timestamp
       \o w3b_price_lamports     \* [208..216] w3b_price_lamports
       \o sol_receiver           \* [216..248] sol_receiver
       \o Zeros(18)              \* [248..266] yield fields, zeroed
       \o <<is_paused, bump>>    \* [266], [267]
       \o Zeros(Len(data) - 268) \* [268..]    _reserved and the tail, zeroed

\* fix_v2_layout, MigrateV2 context: the account is taken as raw bytes, so
\* neither its deserialization nor its stored bump is checked; the signer is
\* compared with the 32 bytes at offset 8.
fix_v2_layout(caller) ==
  LET data == EncodeV2(state)
      err == IF ~(Len(data) >= 218) THEN "Unauthorized"
             ELSE IF Slice(data, 8, 40) # caller THEN "Unauthorized"
             ELSE "Ok"
  IN
  /\ state' = IF err = "Ok" THEN DecodeV2(FixV2Layout(data)) ELSE state
  /\ result' = Res("fix_v2_layout", caller, 0, 0, DefaultKey, err, "none")
  /\ UNCHANGED <<profiles, requests, now>>

----------------------------------------------------------------------------
(* The migration on the raw account.  The MigrateV2 context takes            *)
(* protocol_state as an AccountInfo: bytes, length and lamports, with no     *)
(* deserialization.  In the specifications of the raw account `state` is     *)
(* that view of the account, [data, lamports], together with the lamports    *)
(* of the wallets that may sign (wallets).                                   *)

\* let new_size = 512
NEW_SIZE == 512

\* Smallest length fix_v2_layout accepts: a record under the V1 layout,
\* whose fields end at offset 210
V1_SPACE == 218

\* The V1 layout, as fix_v2_layout reads it
EncodeV1(v) ==
  Discriminator \o v.authority \o v.w3b_mint \o v.treasury
    \o v.current_merkle_root \o LeBytes8(v.last_root_update)
    \o LeBytes8(v.last_proof_timestamp) \o LeBytes8(v.proven_reserves)
    \o LeBytes8(v.total_supply) \o <<v.is_paused, v.bump>>
    \o LeBytes8(v.w3b_price_lamports) \o v.sol_receiver
    \o Zeros(V1_SPACE - 210)

DecodeV1(data) ==
  [authority |-> Slice(data, 8, 40),
   w3b_mint |-> Slice(data, 40, 72),
   treasury |-> Slice(data, 72, 104),
   current_merkle_root |-> Slice(data, 104, 136),
   last_root_update |-> FromLeBytes8(Slice(data, 136, 144)),
   last_proof_timestamp |-> FromLeBytes8(Slice(data, 144, 152)),
   proven_reserves |-> FromLeBytes8(Slice(data, 152, 160)),
   total_supply |-> FromLeBytes8(Slice(data, 160, 168)),
   is_paused |-> data[169],
   bump |-> data[170],
   w3b_price_lamports |-> FromLeBytes8(Slice(data, 170, 178)),
   sol_receiver |-> Slice(data, 178, 210)]

\* Rent::minimum_balance: the rent-exempt balance of an account of n bytes
\* (128 bytes of account overhead, 3480 lamports per byte-year, 2 years)
MinimumBalance(n) == (128 + n) * 6960

\* AccountInfo::realloc(new_len, false): the bytes kept stay as they are and
\* the bytes a growth adds are zero
Realloc(data, new_len) ==
  IF Len(data) >= new_len THEN SubSeq(data, 1, new_len)
  ELSE data \o Zeros(new_len - Len(data))

\* Variant of the identity read: the key at the V2 operator offset
StoredOperator(data) == Slice(data, 40, 72)

\* Pubkey::try_from(&data[8..40])
StoredAuthority(data) == Slice(data, 8, 40)

\* Variant of the shortfall: nothing is transferred before the resize
RentShortfallNone(current_lamports, new_min_rent) == 0

\* The lamports missing for the new size (diff), 0 when there are enough
RentShortfall(current_lamports, new_min_rent) ==
  IF current_lamports < new_min_rent THEN new_min_rent - current_lamports ELSE 0

\* migrate_v2, MigrateV2 context.  The system transfer fails when the signer
\* does not hold the shortfall.
migrate_v2(caller) ==
  LET data == state.data
      diff == RentShortfall(state.lamports, MinimumBalance(NEW_SIZE))
      err == IF ~(Len(data) >= 40) THEN "Unauthorized"
             ELSE IF StoredAuthority(data) # caller THEN "Unauthorized"
             ELSE IF diff > state.wallets[caller] THEN "InsufficientFunds"
             ELSE "Ok"
  IN
  /\ state' = IF err = "Ok"
              THEN [data |-> Realloc(data, NEW_SIZE),
                    lamports |-> state.lamports + diff,
                    wallets |-> [state.wallets EXCEPT ![caller] = @ - diff]]
              ELSE state
  /\ result' = Res("migrate_v2", caller, 0, 0, DefaultKey, err, "none")
  /\ UNCHANGED <<profiles, requests, now>>

\* fix_v2_layout on the raw account.  A buffer of 218..267 bytes passes the
\* length check and then panics on a write past its end (data[216..248],
\* data[266]), which aborts the instruction.
fix_v2_layout_raw(caller) ==
  LET data == state.data
      err == IF ~(Len(data) >= V1_SPACE) THEN "Unauthorized"
             ELSE IF StoredAuthority(data) # caller THEN "Unauthorized"
             ELSE IF Len(data) < 268 THEN "ProgramFailedToComplete"
             ELSE "Ok"
  IN
  /\ state' = IF err = "Ok" THEN [state EXCEPT !.data = FixV2Layout(data)] ELSE state
  /\ result' = Res("fix_v2_layout", caller, 0, 0, DefaultKey, err, "none")
  /\ UNCHANGED <<profiles, requests, now>>

----------------------------------------------------------------------------
(* Operator operations: the reserve and supply guard *)

\* Variant of checked_add: the overflow check always passes
CheckedAddAlways(a, b) == TRUE

\* checked_add on u64
CheckedAddOk(a, b) == a + b <= U64_MAX

\* update_merkle_root(new_root, total_serials), OperatorOnly
update_merkle_root(caller, new_root, total_serials) ==
  LET err == FirstErr(<<OperatorOnly(caller),
                        IF state.is_paused = 1 THEN "ProtocolPaused" ELSE "Ok">>)
  IN
  /\ state' = IF err = "Ok"
              THEN [state EXCEPT !.current_merkle_root = new_root,
                                 !.proven_reserves = total_serials,
                                 !.last_root_update = now]
              ELSE state
  /\ result' = Res("update_merkle_root", caller, total_serials, 0, DefaultKey, err,
                   IF err = "Ok" THEN "MerkleRootUpdated" ELSE "none")
  /\ UNCHANGED <<profiles, requests, now>>

\* Variant of the reserve count check: an understated count passes
ReservesMatchAtMost(claimed_reserves, proven_reserves) == claimed_reserves <= proven_reserves

\* claimed_reserves == state.proven_reserves
ReservesMatch(claimed_reserves, proven_reserves) == claimed_reserves = proven_reserves

\* submit_proof(proof_hash, claimed_reserves), OperatorOnly.  proof_hash only
\* travels into the event.
submit_proof(caller, claimed_reserves) ==
  LET err == FirstErr(<<OperatorOnly(caller),
                        IF ReservesMatch(claimed_reserves, state.proven_reserves)
                        THEN "Ok" ELSE "ReserveCountMismatch">>)
  IN
  /\ state' = IF err = "Ok" THEN [state EXCEPT !.last_proof_timestamp = now] ELSE state
  /\ result' = Res("submit_proof", caller, claimed_reserves, 0, DefaultKey, err,
                   IF err = "Ok" THEN "ProofSubmitted" ELSE "none")
  /\ UNCHANGED <<profiles, requests, now>>

\* Variant of the 20% bound: a quarter of the current price
PriceWithinQuarter(current, price_lamports) ==
  IF current > 0
  THEN LET max_change == current \div 4
           diff == IF price_lamports > current
                   THEN price_lamports - current
                   ELSE current - price_lamports
       IN diff <= max_change
  ELSE TRUE

\* Variant of the 20% bound: the fifth of the current price is rounded up
PriceWithinFifthRoundedUp(current, price_lamports) ==
  IF current > 0
  THEN LET max_change == (current + 4) \div 5
           diff == IF price_lamports > current
                   THEN price_lamports - current
                   ELSE current - price_lamports
       IN diff <= max_change
  ELSE TRUE

\* The 20% bound of set_w3b_price: skipped while no price is set
PriceWithinBounds(current, price_lamports) ==
  IF current > 0
  THEN LET max_change == current \div 5
           diff == IF price_lamports > current
                   THEN price_lamports - current
                   ELSE current - price_lamports
       IN diff <= max_change
  ELSE TRUE

\* set_w3b_price(price_lamports), OperatorOnly
set_w3b_price(caller, price_lamports) ==
  LET err == FirstErr(<<OperatorOnly(caller),
                        IF price_lamports > 0 THEN "Ok" ELSE "InvalidPrice",
                        IF PriceWithinBounds(state.w3b_price_lamports, price_lamports)
                        THEN "Ok" ELSE "PriceChangeExceedsLimit">>)
  IN
  /\ state' = IF err = "Ok" THEN [state EXCEPT !.w3b_price_lamports = price_lamports]
              ELSE state
  /\ result' = Res("set_w3b_price", caller, price_lamports, 0, DefaultKey, err, "none")
  /\ UNCHANGED <<profiles, requests, now>>

\* #[derive(Accounts)] MintW3B: has_one = w3b_mint, has_one = treasury, then
\* the operator constraint.  The only mint is W3B_MINT and the only token
\* account owned by the protocol is TREASURY.
MintW3BAccounts(caller) ==
  FirstErr(<<DeserializeErr, SeedsErr,
             IF state.w3b_mint = W3B_MINT THEN "Ok" ELSE "ConstraintHasOne",
             IF state.treasury = TREASURY THEN "Ok" ELSE "ConstraintHasOne",
             IF IsOperator(caller) THEN "Ok" ELSE "Unauthorized">>)

\* Variant of the staleness check: a record that never saw a proof passes
ProofFreshOrNever(t, last_proof_timestamp) ==
  last_proof_timestamp = 0 \/ t - last_proof_timestamp < PROOF_MAX_AGE

\* Variant of the staleness check: a proof exactly 48 hours old still counts
ProofFreshInclusive(t, last_proof_timestamp) == t - last_proof_timestamp <= PROOF_MAX_AGE

\* now - state.last_proof_timestamp < 48 * 3600
ProofFresh(t, last_proof_timestamp) == t - last_proof_timestamp < PROOF_MAX_AGE

\* Variants of the reserve check: a strict comparison, and no check
ReservesCoverStrict(new_supply, proven_reserves) == new_supply < proven_reserves

ReservesCoverAlways(new_supply, proven_reserves) == TRUE

\* new_supply <= state.proven_reserves
ReservesCover(new_supply, proven_reserves) == new_supply <= proven_reserves

\* Variant of mint_w3b: the counter is written before the token program is
\* invoked and the write survives a refused mint_to
mint_w3b_counter_first(caller, amount, cpi_ok) ==
  LET new_supply == state.total_supply + amount
      err == FirstErr(<<MintW3BAccounts(caller),
               IF state.is_paused = 1 THEN "ProtocolPaused" ELSE "Ok",
               IF ProofFresh(now, state.last_proof_timestamp) THEN "Ok" ELSE "StaleMerkleRoot",
               IF CheckedAddOk(state.total_supply, amount) THEN "Ok" ELSE "MathOverflow",
               IF ReservesCover(new_supply, state.proven_reserves)
               THEN "Ok" ELSE "InsufficientReserves",
               IF cpi_ok THEN "Ok" ELSE "TokenProgramError">>)
  IN
  /\ state' = IF err \in {"Ok", "TokenProgramError"}
              THEN [state EXCEPT !.total_supply = new_supply] ELSE state
  /\ result' = Res("mint_w3b", caller, amount, 0, DefaultKey, err,
                   IF err = "Ok" THEN "TokensMinted" ELSE "none")
  /\ UNCHANGED <<profiles, requests, now>>

\* mint_w3b(amount).  cpi_ok is the outcome of the token program's mint_to.
mint_w3b(caller, amount, cpi_ok) ==
  LET new_supply == state.total_supply + amount
      err == FirstErr(<<MintW3BAccounts(caller),
               IF state.is_paused = 1 THEN "ProtocolPaused" ELSE "Ok",
               IF ProofFresh(now, state.last_proof_timestamp) THEN "Ok" ELSE "StaleMerkleRoot",
               IF CheckedAddOk(state.total_supply, amount) THEN "Ok" ELSE "MathOverflow",
               IF ReservesCover(new_supply, state.proven_reserves)
               THEN "Ok" ELSE "InsufficientReserves",
               IF cpi_ok THEN "Ok" ELSE "TokenProgramError">>)
  IN
  /\ state' = IF err = "Ok" THEN [state EXCEPT !.total_supply = new_supply] ELSE state
  /\ result' = Res("mint_w3b", caller, amount, 0, DefaultKey, err,
                   IF err = "Ok" THEN "TokensMinted" ELSE "none")
  /\ UNCHANGED <<profiles, requests, now>>

----------------------------------------------------------------------------
(* Public operations: purchase, points, burn-to-redeem *)

\* Variant of checked_mul: the product is never refused
CheckedMulAlways(a, b) == TRUE

\* checked_mul on u64
CheckedMulOk(a, b) == b = 0 \/ a <= U64_MAX \div b

\* Variant of saturating_add: the sum wraps
WrappingAdd(a, b) == (a + b) % (U64_MAX + 1)

\* saturating_add on u64
SaturatingAdd(a, b) == IF a + b > U64_MAX THEN U64_MAX ELSE a + b

\* An Option<Account<UserProfile>>: passing the profile of `user` requires it
\* to exist
ProfileErr(with_profile, user) ==
  IF with_profile /\ user \notin DOMAIN profiles THEN "AccountNotInitialized" ELSE "Ok"

\* init_user_profile, InitUserProfile context (init of an existing address fails)
init_user_profile(user) ==
  LET err == IF user \in DOMAIN profiles THEN "AccountAlreadyInUse" ELSE "Ok"
      profile == [user |-> user, total_volume |-> 0, points |-> 0, tier |-> 0,
                  total_redeemed |-> 0, total_fulfilled |-> 0, fulfiller_rewards |-> 0]
  IN
  /\ profiles' = IF err = "Ok"
                 THEN [u \in DOMAIN profiles \cup {user} |->
                         IF u = user THEN profile ELSE profiles[u]]
                 ELSE profiles
  /\ result' = Res("init_user_profile", user, 0, 0, DefaultKey, err, "none")
  /\ UNCHANGED <<state, requests, now>>

\* The tier assignment of buy_w3b: a tier is written only when a threshold is
\* passed, otherwise the stored tier stays
BuyTier(points, tier) ==
  IF points > 2000 THEN 3
  ELSE IF points > 500 THEN 2
  ELSE IF points > 100 THEN 1
  ELSE tier

\* #[derive(Accounts)] BuyW3B
BuyW3BAccounts(buyer, with_profile) ==
  FirstErr(<<DeserializeErr, ProfileErr(with_profile, buyer), SeedsErr,
             IF state.treasury = TREASURY THEN "Ok" ELSE "ConstraintHasOne",
             IF state.w3b_mint = W3B_MINT THEN "Ok" ELSE "ConstraintTokenMint">>)

\* buy_w3b(amount).  sol_ok and token_ok are the outcomes of the two transfers.
buy_w3b(buyer, amount, with_profile, sol_ok, token_ok) ==
  LET err == FirstErr(<<BuyW3BAccounts(buyer, with_profile),
               IF state.is_paused = 1 THEN "ProtocolPaused" ELSE "Ok",
               IF state.w3b_price_lamports > 0 THEN "Ok" ELSE "PriceNotSet",
               IF amount <= BUY_CAP THEN "Ok" ELSE "ExceedsTransactionCap",
               IF CheckedMulOk(state.w3b_price_lamports, amount) THEN "Ok" ELSE "MathOverflow",
               IF sol_ok THEN "Ok" ELSE "SystemProgramError",
               IF token_ok THEN "Ok" ELSE "TokenProgramError">>)
      points == IF with_profile /\ err = "Ok"
                THEN SaturatingAdd(profiles[buyer].points, amount) ELSE 0
  IN
  /\ profiles' = IF err = "Ok" /\ with_profile
                 THEN [profiles EXCEPT
                         ![buyer].points = points,
                         ![buyer].total_volume = SaturatingAdd(@, amount),
                         ![buyer].tier = BuyTier(points, @)]
                 ELSE profiles
  /\ result' = Res("buy_w3b", buyer, amount, 0, DefaultKey, err,
                   IF err = "Ok" THEN "TokensPurchased" ELSE "none")
  /\ UNCHANGED <<state, requests, now>>

\* Variant of BurnW3B: an existing redemption_request address is taken over
\* (init_if_needed) instead of being refused
BurnW3BAccountsReinit(user, request_id, with_profile) ==
  FirstErr(<<DeserializeErr, ProfileErr(with_profile, user), SeedsErr,
             IF state.w3b_mint = W3B_MINT THEN "Ok" ELSE "Unauthorized">>)

\* #[derive(Accounts)] BurnW3B: the redemption_request address is created
\* (init) while the accounts are loaded, before any constraint runs
BurnW3BAccounts(user, request_id, with_profile) ==
  FirstErr(<<DeserializeErr,
             IF <<user, request_id>> \in DOMAIN requests THEN "AccountAlreadyInUse" ELSE "Ok",
             ProfileErr(with_profile, user), SeedsErr,
             IF state.w3b_mint = W3B_MINT THEN "Ok" ELSE "Unauthorized">>)

\* amount.checked_mul(2).unwrap_or(amount)
RedeemPoints(amount) == IF CheckedMulOk(amount, 2) THEN amount * 2 ELSE amount

\* Variant of burn_w3b: the burned amount leaves total_supply and is not
\* added to total_burned
burn_w3b_uncounted(user, amount, request_id, with_profile, cpi_ok) ==
  LET err == FirstErr(<<BurnW3BAccounts(user, request_id, with_profile),
               IF state.is_paused = 1 THEN "ProtocolPaused" ELSE "Ok",
               IF cpi_ok THEN "Ok" ELSE "TokenProgramError",
               IF amount <= state.total_supply THEN "Ok" ELSE "MathOverflow",
               IF CheckedAddOk(state.total_burned, amount) THEN "Ok" ELSE "MathOverflow">>)
      req == [user |-> user, request_id |-> request_id, amount |-> amount,
              status |-> 0, fulfiller |-> DefaultKey, created_at |-> now,
              claimed_at |-> 0, confirmed_at |-> 0]
  IN
  /\ state' = IF err = "Ok" THEN [state EXCEPT !.total_supply = @ - amount]
              ELSE state
  /\ requests' = IF err = "Ok"
                 THEN [k \in DOMAIN requests \cup {<<user, request_id>>} |->
                         IF k = <<user, request_id>> THEN req ELSE requests[k]]
                 ELSE requests
  /\ profiles' = IF err = "Ok" /\ with_profile
                 THEN [profiles EXCEPT
                         ![user].points = SaturatingAdd(@, RedeemPoints(amount)),
                         ![user].total_redeemed = SaturatingAdd(@, amount)]
                 ELSE profiles
  /\ result' = Res("burn_w3b", user, amount, request_id, DefaultKey, err,
                   IF err = "Ok" THEN "TokensBurned" ELSE "none")
  /\ UNCHANGED now

\* burn_w3b(amount, request_id).  cpi_ok is the outcome of the token
\* program's burn.
burn_w3b(user, amount, request_id, with_profile, cpi_ok) ==
  LET err == FirstErr(<<BurnW3BAccounts(user, request_id, with_profile),
               IF state.is_paused = 1 THEN "ProtocolPaused" ELSE "Ok",
               IF cpi_ok THEN "Ok" ELSE "TokenProgramError",
               IF amount <= state.total_supply THEN "Ok" ELSE "MathOverflow",
               IF CheckedAddOk(state.total_burned, amount) THEN "Ok" ELSE "MathOverflow">>)
      req == [user |-> user, request_id |-> request_id, amount |-> amount,
              status |-> 0, fulfiller |-> DefaultKey, created_at |-> now,
              claimed_at |-> 0, confirmed_at |-> 0]
  IN
  /\ state' = IF err = "Ok"
              THEN [state EXCEPT !.total_supply = @ - amount,
                                 !.total_burned = @ + amount]
              ELSE state
  /\ requests' = IF err = "Ok"
                 THEN [k \in DOMAIN requests \cup {<<user, request_id>>} |->
                         IF k = <<user, request_id>> THEN req ELSE requests[k]]
                 ELSE requests
  /\ profiles' = IF err = "Ok" /\ with_profile
                 THEN [profiles EXCEPT
                         ![user].points = SaturatingAdd(@, RedeemPoints(amount)),
                         ![user].total_redeemed = SaturatingAdd(@, amount)]
                 ELSE profiles
  /\ result' = Res("burn_w3b", user, amount, request_id, DefaultKey, err,
                   IF err = "Ok" THEN "TokensBurned" ELSE "none")
  /\ UNCHANGED now

\* award_points(amount), AwardPoints context: the operator constraint names no
\* error of its own
award_points(caller, user, amount) ==
  LET err == FirstErr(<<DeserializeErr, ProfileErr(TRUE, user), SeedsErr,
                        IF IsOperator(caller) THEN "Ok" ELSE "ConstraintRaw">>)
  IN
  /\ profiles' = IF err = "Ok"
                 THEN [profiles EXCEPT ![user].points = SaturatingAdd(@, amount)]
                 ELSE profiles
  /\ result' = Res("award_points", caller, amount, 0, user, err, "none")
  /\ UNCHANGED <<state, requests, now>>

----------------------------------------------------------------------------
(* P2P fulfillment: the redemption state machine *)

Pending == 0
Claimed == 1
Confirmed == 3
Cancelled == 4

\* Account<RedemptionRequest>: the address must hold a request
RequestErr(key) == IF key \in DOMAIN requests THEN "Ok" ELSE "AccountNotInitialized"

\* Variant of the claim check: a claimed request may be claimed again
ClaimAllowedAgain(status) == status = Pending \/ status = Claimed

\* req.status == 0
ClaimAllowed(status) == status = Pending

\* Variant of the confirm check: an unclaimed request may be confirmed too
ConfirmAllowedUnclaimed(status) == status = Pending \/ status = Claimed

\* req.status == 1
ConfirmAllowed(status) == status = Claimed

\* Variant of the cancel check: a confirmed request may still be cancelled
CancelAllowedLate(status) == status = Pending \/ status = Claimed \/ status = Confirmed

\* req.status == 0 || req.status == 1
CancelAllowed(status) == status = Pending \/ status = Claimed

\* claim_redemption, ClaimRedemption context: any signer may claim
claim_redemption(fulfiller, key) ==
  LET err == FirstErr(<<DeserializeErr, RequestErr(key), SeedsErr,
               IF key \in DOMAIN requests /\ ~ClaimAllowed(requests[key].status)
               THEN "InvalidRedemptionStatus" ELSE "Ok">>)
  IN
  /\ requests' = IF err = "Ok"
                 THEN [requests EXCEPT ![key].status = Claimed,
                                       ![key].fulfiller = fulfiller,
                                       ![key].claimed_at = now]
                 ELSE requests
  /\ result' = Res("claim_redemption", fulfiller, 0, key[2], key[1], err,
                   IF err = "Ok" THEN "RedemptionClaimed" ELSE "none")
  /\ UNCHANGED <<state, profiles, now>>

\* confirm_delivery, ConfirmDelivery context: the status constraint of the
\* request runs before the signer constraint.  with_profile: the caller
\* passes the profile of the recorded fulfiller.
confirm_delivery(caller, key, with_profile) ==
  LET err == FirstErr(<<DeserializeErr, RequestErr(key),
               IF key \in DOMAIN requests
               THEN ProfileErr(with_profile, requests[key].fulfiller) ELSE "Ok",
               SeedsErr,
               IF key \in DOMAIN requests /\ ~ConfirmAllowed(requests[key].status)
               THEN "InvalidRedemptionStatus" ELSE "Ok",
               IF caller = state.authority \/ caller = state.operator
               THEN "Ok" ELSE "Unauthorized">>)
  IN
  /\ requests' = IF err = "Ok"
                 THEN [requests EXCEPT ![key].status = Confirmed,
                                       ![key].confirmed_at = now]
                 ELSE requests
  /\ profiles' = IF err = "Ok" /\ with_profile
                 THEN [profiles EXCEPT
                         ![requests[key].fulfiller].points = SaturatingAdd(@, 5),
                         ![requests[key].fulfiller].total_fulfilled = SaturatingAdd(@, 1)]
                 ELSE profiles
  /\ result' = Res("confirm_delivery", caller, 0, key[2], key[1], err,
                   IF err = "Ok" THEN "RedemptionConfirmed" ELSE "none")
  /\ UNCHANGED <<state, now>>

\* Variant of cancel_redemption: the cancelled amount is put back into the
\* circulating supply
cancel_redemption_refund(caller, key) ==
  LET err == FirstErr(<<DeserializeErr, RequestErr(key), SeedsErr,
               IF IsAuthority(caller) THEN "Ok" ELSE "ConstraintHasOne",
               IF key \in DOMAIN requests /\ ~CancelAllowed(requests[key].status)
               THEN "InvalidRedemptionStatus" ELSE "Ok">>)
  IN
  /\ requests' = IF err = "Ok" THEN [requests EXCEPT ![key].status = Cancelled]
                 ELSE requests
  /\ state' = IF err = "Ok"
              THEN [state EXCEPT !.total_supply = @ + requests[key].amount,
                                 !.total_burned = @ - requests[key].amount]
              ELSE state
  /\ result' = Res("cancel_redemption", caller, 0, key[2], key[1], err,
                   IF err = "Ok" THEN "RedemptionCancelled" ELSE "none")
  /\ UNCHANGED <<profiles, now>>

\* cancel_redemption, CancelRedemption context (has_one = authority)
cancel_redemption(caller, key) ==
  LET err == FirstErr(<<DeserializeErr, RequestErr(key), SeedsErr,
               IF IsAuthority(caller) THEN "Ok" ELSE "ConstraintHasOne",
               IF key \in DOMAIN requests /\ ~CancelAllowed(requests[key].status)
               THEN "InvalidRedemptionStatus" ELSE "Ok">>)
  IN
  /\ requests' = IF err = "Ok" THEN [requests EXCEPT ![key].status = Cancelled]
                 ELSE requests
  /\ result' = Res("cancel_redemption", caller, 0, key[2], key[1], err,
                   IF err = "Ok" THEN "RedemptionCancelled" ELSE "none")
  /\ UNCHANGED <<state, profiles, now>>

----------------------------------------------------------------------------
(* Admin operations *)

\* set_paused(paused), AdminOnly
set_paused(caller, paused) ==
  LET err == AdminOnly(caller) IN
  /\ state' = IF err = "Ok" THEN [state EXCEPT !.is_paused = IF paused THEN 1 ELSE 0]
              ELSE state
  /\ result' = Res("set_paused", caller, IF paused THEN 1 ELSE 0, 0, DefaultKey, err, "none")
  /\ UNCHANGED <<profiles, requests, now>>

\* set_sol_receiver(receiver), AdminOnly
set_sol_receiver(caller, receiver) ==
  LET err == AdminOnly(caller) IN
  /\ state' = IF err = "Ok" THEN [state EXCEPT !.sol_receiver = receiver] ELSE state
  /\ result' = Res("set_sol_receiver", caller, 0, 0, receiver, err, "none")
  /\ UNCHANGED <<profiles, requests, now>>

\* set_treasury(treasury), AdminOnly
set_treasury(caller, treasury) ==
  LET err == AdminOnly(caller) IN
  /\ state' = IF err = "Ok" THEN [state EXCEPT !.treasury = treasury] ELSE state
  /\ result' = Res("set_treasury", caller, 0, 0, treasury, err, "none")
  /\ UNCHANGED <<profiles, requests, now>>

\* set_w3b_price_admin(price), AdminOnly: unbounded override
set_w3b_price_admin(caller, price) ==
  LET err == AdminOnly(caller) IN
  /\ state' = IF err = "Ok" THEN [state EXCEPT !.w3b_price_lamports = price] ELSE state
  /\ result' = Res("set_w3b_price_admin", caller, price, 0, DefaultKey, err, "none")
  /\ UNCHANGED <<profiles, requests, now>>

\* set_yield_rate(apy_bps), AdminOnly
set_yield_rate(caller, apy_bps) ==
  LET err == AdminOnly(caller) IN
  /\ state' = IF err = "Ok" THEN [state EXCEPT !.yield_apy_bps = apy_bps] ELSE state
  /\ result' = Res("set_yield_rate", caller, apy_bps, 0, DefaultKey, err,
                   IF err = "Ok" THEN "YieldRateUpdated" ELSE "none")
  /\ UNCHANGED <<profiles, requests, now>>

\* record_yield_distribution(amount), OperatorOnly
record_yield_distribution(caller, amount) ==
  LET err == FirstErr(<<OperatorOnly(caller),
               IF CheckedAddOk(state.total_yield_distributed, amount)
               THEN "Ok" ELSE "MathOverflow">>)
  IN
  /\ state' = IF err = "Ok"
              THEN [state EXCEPT !.total_yield_distributed = @ + amount,
                                 !.last_yield_distribution = now]
              ELSE state
  /\ result' = Res("record_yield_distribution", caller, amount, 0, DefaultKey, err,
                   IF err = "Ok" THEN "YieldDistributed" ELSE "none")
  /\ UNCHANGED <<profiles, requests, now>>

\* The cluster clock (Clock::get()?.unix_timestamp) moves forward between
\* instructions
Tick(t) ==
  /\ t > now
  /\ now' = t
  /\ UNCHANGED <<state, profiles, requests, result>>

----------------------------------------------------------------------------
(* Specifications.  An instruction is submitted only when none is in       *)
(* flight; its inputs are drawn from the sets below.                       *)

Signers == {AUTHORITY, HOT, ALICE}

\* An attestation root.  Read back through the V1 offsets its bytes give
\* proven_reserves = 1, total_supply = 2, is_paused = 0 and the canonical bump.
RootA == [i \in 1..32 |-> IF i = 1 THEN 1 ELSE IF i = 9 THEN 2 ELSE IF i = 18 THEN BUMP ELSE 0]

\* Largest attested reserve count
MaxTotal == 1

\* Largest amount minted or burned in one instruction
MaxAmount == 1

Times == {T0, T0 + PROOF_MAX_AGE}

RequestKeys == {<<ALICE, 1>>}

\* Normal operation: the reserve guard, the purchase and the redemption
\* state machine
Next ==
  \/ Return
  \/ \E t \in Times : Idle /\ Tick(t)
  \/ \E c \in Signers : Idle /\ set_operator(c, HOT)
  \/ \E c \in Signers, total \in 0..MaxTotal : Idle /\ update_merkle_root(c, RootA, total)
  \/ \E c \in Signers, claimed \in 0..MaxTotal : Idle /\ submit_proof(c, claimed)
  \/ \E c \in Signers, price \in {0, 1} : Idle /\ set_w3b_price(c, price)
  \/ \E c \in Signers, amount \in 1..MaxAmount, ok \in BOOLEAN :
       Idle /\ mint_w3b(c, amount, ok)
  \/ \E amount \in {1, BUY_CAP + 1}, ok \in BOOLEAN :
       Idle /\ buy_w3b(ALICE, amount, FALSE, ok, ok)
  \/ \E k \in RequestKeys, amount \in 1..MaxAmount, ok \in BOOLEAN :
       Idle /\ burn_w3b(k[1], amount, k[2], FALSE, ok)
  \/ \E c \in Signers, k \in RequestKeys : Idle /\ claim_redemption(c, k)
  \/ \E c \in Signers, k \in RequestKeys : Idle /\ confirm_delivery(c, k, FALSE)
  \/ \E c \in Signers, k \in RequestKeys : Idle /\ cancel_redemption(c, k)
  \/ \E c \in Signers, paused \in BOOLEAN : Idle /\ set_paused(c, paused)
  \/ \E c \in Signers, price \in {0, 1} : Idle /\ set_w3b_price_admin(c, price)

Spec == Init /\ [][Next]_vars

\* The ledger together with the layout remap, which the authority may invoke
\* on the live record
NextMigrate ==
  \/ Return
  \/ \E c \in {AUTHORITY, HOT} : Idle /\ fix_v2_layout(c)
  \/ \E c \in {AUTHORITY, HOT}, total \in 0..MaxTotal :
       Idle /\ update_merkle_root(c, RootA, total)
  \/ \E c \in {AUTHORITY, HOT}, claimed \in 0..MaxTotal : Idle /\ submit_proof(c, claimed)
  \/ \E c \in {AUTHORITY, HOT}, amount \in 1..MaxAmount, ok \in BOOLEAN :
       Idle /\ mint_w3b(c, amount, ok)
  \/ \E amount \in {1, BUY_CAP + 1}, ok \in BOOLEAN :
       Idle /\ buy_w3b(ALICE, amount, FALSE, ok, ok)
  \/ \E k \in RequestKeys, amount \in 1..MaxAmount, ok \in BOOLEAN :
       Idle /\ burn_w3b(k[1], amount, k[2], FALSE, ok)
  \/ \E c \in {AUTHORITY, HOT}, paused \in BOOLEAN : Idle /\ set_paused(c, paused)
  \/ \E c \in {AUTHORITY, HOT}, price \in {0, 1} : Idle /\ set_w3b_price_admin(c, price)

SpecMigrate == Init /\ [][NextMigrate]_vars

\* The reserve guard under amounts and clock readings around its boundaries
MintTimes ==
  {T0, T0 + 1, T0 + PROOF_MAX_AGE - 1, T0 + PROOF_MAX_AGE, T0 + PROOF_MAX_AGE + 1}

MintTotals == {0, 60, 100}

MintAmounts == {0, 40, 50, 60, U64_MAX}

NextMint ==
  \/ Return
  \/ \E t \in MintTimes : Idle /\ Tick(t)
  \/ \E c \in {AUTHORITY, HOT} : Idle /\ set_operator(c, HOT)
  \/ \E c \in {AUTHORITY, HOT}, total \in MintTotals :
       Idle /\ update_merkle_root(c, RootA, total)
  \/ \E c \in {AUTHORITY, HOT}, claimed \in MintTotals : Idle /\ submit_proof(c, claimed)
  \/ \E c \in {AUTHORITY, HOT}, amount \in MintAmounts, ok \in BOOLEAN :
       Idle /\ mint_w3b(c, amount, ok)
  \/ \E c \in {AUTHORITY, HOT}, paused \in BOOLEAN : Idle /\ set_paused(c, paused)

SpecMint == Init /\ [][NextMint]_vars

\* The two price paths
Prices == {0, 1, 2, 4, 5, 6, 7, 100, 119, 120, 121, 200}

NextPrice ==
  \/ Return
  \/ \E c \in Signers : Idle /\ set_operator(c, HOT)
  \/ \E c \in Signers, price \in Prices : Idle /\ set_w3b_price(c, price)
  \/ \E c \in Signers, price \in Prices : Idle /\ set_w3b_price_admin(c, price)

SpecPrice == Init /\ [][NextPrice]_vars

\* Largest point balance at which the specifications below still submit a
\* purchase or an award for the profile
MaxPoints == 1200

\* The points of `user` can still be raised within the bound
PointsBelowCap(user) == user \in DOMAIN profiles => profiles[user].points <= MaxPoints

\* The purchase: pause, price, cap, overflow, the two transfers, the profile
BuyPrices == {0, 2, U64_MAX}

BuyAmounts == {150, 1000, 1001}

NextBuy ==
  \/ Return
  \/ \E c \in {AUTHORITY, ALICE}, paused \in BOOLEAN : Idle /\ set_paused(c, paused)
  \/ \E price \in BuyPrices : Idle /\ set_w3b_price_admin(AUTHORITY, price)
  \/ Idle /\ init_user_profile(ALICE)
  \/ \E amount \in BuyAmounts, with_profile, sol_ok, token_ok \in BOOLEAN :
       Idle /\ PointsBelowCap(ALICE)
            /\ buy_w3b(ALICE, amount, with_profile, sol_ok, token_ok)

SpecBuy == Init /\ [][NextBuy]_vars

\* Points and tiers: one holder who buys, burns, fulfills her own request
\* and is awarded points, on a ledger minted up to the attested reserves.
\* Doubling HalfPlus overflows u64.
HalfPlus == U64_MAX \div 2 + 1

PointsKeys == {<<ALICE, 1>>, <<ALICE, 2>>}

\* The amount burned under each request id
PointsBurn(id) == IF id = 1 THEN 400 ELSE HalfPlus

NextPoints ==
  \/ Return
  \/ Idle /\ update_merkle_root(AUTHORITY, RootA, U64_MAX)
  \/ Idle /\ submit_proof(AUTHORITY, U64_MAX)
  \/ Idle /\ mint_w3b(AUTHORITY, U64_MAX, TRUE)
  \/ Idle /\ set_w3b_price_admin(AUTHORITY, 1)
  \/ Idle /\ init_user_profile(ALICE)
  \/ \E amount \in {150, 1000}, with_profile \in BOOLEAN :
       Idle /\ PointsBelowCap(ALICE) /\ buy_w3b(ALICE, amount, with_profile, TRUE, TRUE)
  \/ \E k \in PointsKeys, with_profile \in BOOLEAN :
       Idle /\ burn_w3b(k[1], PointsBurn(k[2]), k[2], with_profile, TRUE)
  \/ Idle /\ PointsBelowCap(ALICE) /\ award_points(AUTHORITY, ALICE, U64_MAX)
  \/ \E k \in PointsKeys : Idle /\ claim_redemption(ALICE, k)
  \/ \E k \in PointsKeys, with_profile \in BOOLEAN :
       Idle /\ confirm_delivery(AUTHORITY, k, with_profile)

SpecPoints == Init /\ [][NextPoints]_vars

\* Burns against the ledger: two holders, a ledger filled to the attested
\* reserves, burns that the token program refuses, that exceed the supply
\* and that overflow total_burned, and reused request keys.
BurnKeys == {<<ALICE, 1>>, <<ALICE, 2>>, <<BOB, 1>>}

BurnAmounts == {1, U64_MAX - 1}

NextBurn ==
  \/ Return
  \/ Idle /\ update_merkle_root(AUTHORITY, RootA, U64_MAX)
  \/ Idle /\ submit_proof(AUTHORITY, U64_MAX)
  \/ Idle /\ mint_w3b(AUTHORITY, U64_MAX - 1, TRUE)
  \/ \E paused \in BOOLEAN : Idle /\ set_paused(AUTHORITY, paused)
  \/ Idle /\ init_user_profile(ALICE)
  \/ \E k \in BurnKeys, amount \in BurnAmounts, with_profile, cpi_ok \in BOOLEAN :
       Idle /\ burn_w3b(k[1], amount, k[2], with_profile, cpi_ok)

SpecBurn == Init /\ [][NextBurn]_vars

\* Fulfillment: a requester and a fulfiller, with or without profiles; the
\* requests are claimed, confirmed with or without the fulfiller's profile
\* passed, and cancelled, while the clock moves.
FulfillKeys == {<<ALICE, 1>>, <<ALICE, 2>>}

FulfillAmount == 7

NextFulfill ==
  \/ Return
  \/ Idle /\ Tick(T0 + 1)
  \/ Idle /\ update_merkle_root(AUTHORITY, RootA, U64_MAX)
  \/ Idle /\ submit_proof(AUTHORITY, U64_MAX)
  \/ Idle /\ mint_w3b(AUTHORITY, U64_MAX - 1, TRUE)
  \/ \E u \in {ALICE, BOB} : Idle /\ init_user_profile(u)
  \/ \E k \in FulfillKeys : Idle /\ burn_w3b(k[1], FulfillAmount, k[2], FALSE, TRUE)
  \/ \E k \in FulfillKeys : Idle /\ claim_redemption(BOB, k)
  \/ \E c \in {AUTHORITY, ALICE}, k \in FulfillKeys, with_profile \in BOOLEAN :
       Idle /\ confirm_delivery(c, k, with_profile)
  \/ \E c \in {AUTHORITY, ALICE}, k \in FulfillKeys : Idle /\ cancel_redemption(c, k)

SpecFulfill == Init /\ [][NextFulfill]_vars

\* Attestation and proof: the operator attests one or two units, proofs are
\* only ever submitted for the counts in ProofClaims, and the clock moves
\* across the staleness window.
ProofClaims == {1}

NextProof ==
  \/ Return
  \/ \E t \in MintTimes : Idle /\ Tick(t)
  \/ \E c \in {AUTHORITY, ALICE}, total \in {0, 1, 2} :
       Idle /\ update_merkle_root(c, RootA, total)
  \/ \E c \in {AUTHORITY, ALICE}, claimed \in ProofClaims : Idle /\ submit_proof(c, claimed)
  \/ \E amount \in {0, 1, 2}, ok \in BOOLEAN : Idle /\ mint_w3b(AUTHORITY, amount, ok)

SpecProof == Init /\ [][NextProof]_vars

\* The migration of the raw account: records under the V1 layout, a record
\* written by initialize_v2, and the address before any record was created,
\* with and without the lamports the new size needs.
V1Records ==
  [authority : {AUTHORITY}, w3b_mint : {W3B_MINT}, treasury : {TREASURY},
   current_merkle_root : {ZeroRoot, RootA},
   last_root_update : {T0 - 2}, last_proof_timestamp : {T0 - 1},
   proven_reserves : {0, 100, U64_MAX}, total_supply : {0, 60},
   is_paused : {0, 1}, bump : {BUMP},
   w3b_price_lamports : {0, 5}, sol_receiver : {HOT}]

RawRecords ==
  {EncodeV1(v) : v \in V1Records} \cup {EncodeV2(InitializeV2State), <<>>}

RawCallers == {AUTHORITY, ALICE}

\* Lamports a wallet holds: none, or more than any shortfall
WalletFunds == {0, MinimumBalance(NEW_SIZE)}

InitRaw ==
  /\ \E data \in RawRecords, extra \in {0, MinimumBalance(NEW_SIZE)},
        funds \in WalletFunds :
        state = [data |-> data,
                 lamports |-> IF data = <<>> THEN 0
                              ELSE MinimumBalance(Len(data)) + extra,
                 wallets |-> [c \in RawCallers |-> funds]]
  /\ profiles = [k \in {} |-> 0]
  /\ requests = NoRequests
  /\ now = T0
  /\ result = NoResult

NextRaw ==
  \/ Return
  \/ \E c \in RawCallers : Idle /\ migrate_v2(c)
  \/ \E c \in RawCallers : Idle /\ fix_v2_layout_raw(c)

SpecRaw == InitRaw /\ [][NextRaw]_vars

----------------------------------------------------------------------------
(* The superseded V1 program (programs/w3b_protocol/src/lib.rs) *)

\* Under SpecV1 the variable `state` holds what the V1 program sees: its
\* protocol_state account (or NoProtocolState before initialize) and the
\* supply of each Token-2022 mint a caller may pass.
NoProtocolState == [authority |-> DefaultKey]

OTHER_MINT == Pk(7)

\* initialize: the account is created (init fails when it already exists) and
\* the counters start at zero, not paused
initialize(authority, mint) ==
  LET err == IF state.protocol_state # NoProtocolState THEN "AccountAlreadyInUse"
             ELSE "Ok"
  IN
  /\ state' = IF err = "Ok"
              THEN [state EXCEPT !.protocol_state =
                      [authority |-> authority, mint |-> mint,
                       total_minted |-> 0, total_burned |-> 0,
                       is_paused |-> FALSE]]
              ELSE state
  /\ result' = Res("initialize", authority, 0, 0, mint, err, "none")
  /\ UNCHANGED <<profiles, requests, now>>

\* Variant of the coverage check: every figure is accepted
CoverageProvenAlways(custody_proven_by_oracle, required_coverage) == TRUE

\* custody_proven_by_oracle >= required_coverage
CoverageProven(custody_proven_by_oracle, required_coverage) ==
  custody_proven_by_oracle >= required_coverage

\* mint_w3b of the V1 program, MintW3B context: the mint account is any mint
\* the caller passes (no has_one), cpi_ok is the token program's answer to
\* mint_to; an error after mint_to reverts the minted supply with the rest
mint_w3b_v1(mint_authority, mint, amount, custody_proven_by_oracle, cpi_ok) ==
  LET protocol_state == state.protocol_state
      current_supply == state.supply[mint]
      err == IF protocol_state = NoProtocolState THEN "AccountNotInitialized"
             ELSE IF protocol_state.is_paused THEN "ProtocolPaused"
             ELSE IF ~CheckedAddOk(current_supply, amount) THEN "MathOverflow"
             ELSE IF ~CoverageProven(custody_proven_by_oracle, current_supply + amount)
                  THEN "InsufficientReserves"
             ELSE IF ~cpi_ok THEN "MintToFailed"
             ELSE IF ~CheckedAddOk(protocol_state.total_minted, amount)
                  THEN "MathOverflow"
             ELSE "Ok"
  IN
  /\ state' = IF err = "Ok"
              THEN [state EXCEPT !.supply[mint] = @ + amount,
                                 !.protocol_state.total_minted = @ + amount]
              ELSE state
  /\ result' = Res("mint_w3b_v1", mint_authority, amount, custody_proven_by_oracle,
                   mint, err, IF err = "Ok" THEN "MintEvent" ELSE "none")
  /\ UNCHANGED <<profiles, requests, now>>

\* anchor_commitment: only an event
anchor_commitment(payer) ==
  /\ result' = Res("anchor_commitment", payer, 0, 0, DefaultKey, "Ok",
                   "CommitmentAnchoredEvent")
  /\ UNCHANGED <<state, profiles, requests, now>>

\* The V1 program from before its account exists: two mints, and mints of
\* nothing, of two units and of almost the whole range, against custody
\* figures below, at and above what the supply needs.
V1Mints == {W3B_MINT, OTHER_MINT}

V1Amounts == {0, 2, U64_MAX - 1}

V1Custody == {0, 1, 2, 4, U64_MAX - 1, U64_MAX}

\* The calls of mint_w3b: small mints are not offered against the two
\* largest custody figures, which keeps every supply among 0, 2, 4 and
\* U64_MAX - 1
V1MintCalls ==
  {c \in V1Amounts \X V1Custody : c[1] = 2 => c[2] <= 4}

InitV1 ==
  /\ state = [protocol_state |-> NoProtocolState,
              supply |-> [m \in V1Mints |-> 0]]
  /\ profiles = [k \in {} |-> 0]
  /\ requests = NoRequests
  /\ now = T0
  /\ result = NoResult

NextV1 ==
  \/ Return
  \/ \E a \in {AUTHORITY, ALICE} : Idle /\ initialize(a, W3B_MINT)
  \/ \E a \in {AUTHORITY, ALICE}, m \in V1Mints, c \in V1MintCalls, ok \in BOOLEAN :
       Idle /\ mint_w3b_v1(a, m, c[1], c[2], ok)
  \/ Idle /\ anchor_commitment(ALICE)

SpecV1 == InitV1 /\ [][NextV1]_vars

----------------------------------------------------------------------------
(* Properties *)

\* The step that executes instruction `op`
Step(op) == Idle /\ result'.op = op

\* The accounts of the program are left as they were
NoWrites == state' = state /\ profiles' = profiles /\ requests' = requests

\* C1: a mint that passes the account, pause and staleness checks and whose
\* sum does not overflow succeeds exactly when total_supply + amount <=
\* proven_reserves, and then total_supply grows by exactly amount (unless the
\* token program refuses the transfer, which reverts it); when the sum
\* exceeds proven_reserves it fails with InsufficientReserves and nothing is
\* written.
C1_MintGuard ==
  [][(/\ Step("mint_w3b")
      /\ MintW3BAccounts(result'.caller) = "Ok"
      /\ state.is_paused = 0
      /\ now - state.last_proof_timestamp < PROOF_MAX_AGE
      /\ state.total_supply + result'.amount <= U64_MAX)
     => IF state.total_supply + result'.amount <= state.proven_reserves
        THEN /\ result'.err \in {"Ok", "TokenProgramError"}
             /\ result'.err = "Ok" =>
                  /\ state' = [state EXCEPT !.total_supply = @ + result'.amount]
                  /\ profiles' = profiles /\ requests' = requests
             /\ result'.err = "TokenProgramError" => NoWrites
        ELSE result'.err = "InsufficientReserves" /\ NoWrites]_vars

\* With 100 reserves attested and 60 minted, a mint of 50 has been refused
C1_Witness ==
  /\ result.op = "mint_w3b" /\ result.amount = 50
  /\ result.err = "InsufficientReserves"
  /\ state.total_supply = 60 /\ state.proven_reserves = 100

\* C2 (as stated): total_supply <= proven_reserves in every reachable state,
\* whatever instructions are interleaved after a mint
C2_SupplyNeverExceedsReserves == state.total_supply <= state.proven_reserves

\* C2 (amended): total_supply <= proven_reserves in the state a successful
\* mint leaves
C2_SupplyCoveredAfterMint ==
  (result.op = "mint_w3b" /\ result.err = "Ok")
    => state.total_supply <= state.proven_reserves

\* A mint has just brought the supply up to the attested reserves
C2_Witness ==
  /\ result.op = "mint_w3b" /\ result.err = "Ok"
  /\ state.total_supply > 0 /\ state.total_supply = state.proven_reserves

\* The protocol record passes deserialization and the seeds check
RecordLoads == DeserializeErr = "Ok" /\ SeedsErr = "Ok"

\* The request an instruction of the fulfillment flow was submitted for
StepKey == <<result'.target, result'.id>>

RedemptionOps == {"claim_redemption", "confirm_delivery", "cancel_redemption"}

\* C3: a request is created Pending by burn_w3b and its status changes only
\* along Pending -> Claimed (claim), Claimed -> Confirmed (confirm) and
\* Pending/Claimed -> Cancelled (cancel), each by a successful instruction
\* on that request; on a Confirmed or Cancelled request every claim, confirm
\* and cancel is rejected and writes nothing, with InvalidRedemptionStatus
\* whenever the call reaches the status check (the record loads and, for
\* cancel, the signer is the authority).
C3_RedemptionTransitions ==
  [][/\ \A k \in DOMAIN requests :
          /\ k \in DOMAIN requests'
          /\ requests'[k].status # requests[k].status =>
               /\ Idle /\ StepKey = k /\ result'.err = "Ok"
               /\ \/ /\ result'.op = "claim_redemption"
                     /\ requests[k].status = Pending /\ requests'[k].status = Claimed
                  \/ /\ result'.op = "confirm_delivery"
                     /\ requests[k].status = Claimed /\ requests'[k].status = Confirmed
                  \/ /\ result'.op = "cancel_redemption"
                     /\ requests[k].status \in {Pending, Claimed}
                     /\ requests'[k].status = Cancelled
          /\ (/\ requests[k].status \in {Confirmed, Cancelled}
              /\ Idle /\ result'.op \in RedemptionOps /\ StepKey = k)
             => /\ result'.err # "Ok"
                /\ NoWrites
                /\ (/\ RecordLoads
                    /\ result'.op = "cancel_redemption" => IsAuthority(result'.caller))
                   => result'.err = "InvalidRedemptionStatus"
     /\ \A k \in DOMAIN requests' \ DOMAIN requests :
          /\ Step("burn_w3b") /\ result'.err = "Ok"
          /\ requests'[k].status = Pending]_vars

\* The authority's cancel of a confirmed request has been rejected
C3_Witness ==
  \E k \in DOMAIN requests :
    /\ requests[k].status = Confirmed
    /\ result.op = "cancel_redemption" /\ result.caller = AUTHORITY
    /\ <<result.target, result.id>> = k
    /\ result.err = "InvalidRedemptionStatus"

\* C4: claims of one request are serialized; a claim that finds the request
\* Pending succeeds and records its signer and the time, a claim that finds
\* it in any other status fails with InvalidRedemptionStatus and leaves the
\* request (fulfiller, claimed_at, status) as it was, and a request never
\* returns to Pending: of several claims exactly the first succeeds.
C4_SingleClaimWins ==
  [][\A k \in DOMAIN requests :
       /\ requests[k].status # Pending => requests'[k].status # Pending
       /\ (Step("claim_redemption") /\ StepKey = k /\ RecordLoads)
          => IF requests[k].status = Pending
             THEN /\ result'.err = "Ok"
                  /\ requests' = [requests EXCEPT ![k].status = Claimed,
                                                  ![k].fulfiller = result'.caller,
                                                  ![k].claimed_at = now]
             ELSE /\ result'.err = "InvalidRedemptionStatus"
                  /\ NoWrites]_vars

\* A second fulfiller's claim has been rejected; the first one's stays recorded
C4_Witness ==
  \E k \in DOMAIN requests :
    /\ requests[k].status = Claimed
    /\ result.op = "claim_redemption" /\ <<result.target, result.id>> = k
    /\ result.err = "InvalidRedemptionStatus"
    /\ requests[k].fulfiller # result.caller

\* C5: a mint succeeds only if now - last_proof_timestamp is strictly less
\* than 172800 seconds; a mint that passes the account and pause checks with
\* a proof 172800 seconds old or older fails with StaleMerkleRoot and writes
\* nothing, whatever the reserves; no other instruction fails with
\* StaleMerkleRoot.
C5_StalenessWindow ==
  [][/\ Step("mint_w3b") =>
          /\ result'.err = "Ok" => now - state.last_proof_timestamp < 172800
          /\ (/\ MintW3BAccounts(result'.caller) = "Ok"
              /\ state.is_paused = 0
              /\ now - state.last_proof_timestamp >= 172800)
             => result'.err = "StaleMerkleRoot" /\ NoWrites
     /\ result'.err = "StaleMerkleRoot" => result'.op = "mint_w3b"]_vars

\* A mint the reserves would cover has been refused on a proof exactly 48
\* hours old
C5_Witness ==
  /\ result.op = "mint_w3b" /\ result.err = "StaleMerkleRoot"
  /\ now - state.last_proof_timestamp = 172800
  /\ result.amount > 0
  /\ state.total_supply + result.amount <= state.proven_reserves

\* The account checks of the instruction being executed pass
GatedAccountsOk ==
  CASE result'.op = "mint_w3b" -> MintW3BAccounts(result'.caller) = "Ok"
    [] result'.op = "update_merkle_root" -> OperatorOnly(result'.caller) = "Ok"
    [] result'.op = "buy_w3b" -> BuyW3BAccounts(result'.caller, FALSE) = "Ok"
    [] result'.op = "burn_w3b" ->
         BurnW3BAccounts(result'.caller, result'.id, FALSE) = "Ok"
    [] OTHER -> FALSE

\* C6 (as stated): while is_paused, mint, buy, burn and update_merkle_root
\* fail with ProtocolPaused and write nothing, and total_supply,
\* total_burned and proven_reserves stay constant across every step taken
\* while paused.
C6_PausedFreezesLedger ==
  [][state.is_paused = 1 =>
       /\ (Idle /\ GatedAccountsOk) => result'.err = "ProtocolPaused" /\ NoWrites
       /\ state'.total_supply = state.total_supply
       /\ state'.total_burned = state.total_burned
       /\ state'.proven_reserves = state.proven_reserves]_vars

\* C7 (as stated): total_burned never decreases, and total_supply decreases
\* only by a successful burn of amount <= total_supply, which moves exactly
\* amount from total_supply to total_burned.
C7_BurnedMonotone ==
  [][/\ state'.total_burned >= state.total_burned
     /\ state'.total_supply >= 0
     /\ state'.total_supply < state.total_supply =>
          /\ Step("burn_w3b") /\ result'.err = "Ok"
          /\ result'.amount <= state.total_supply
          /\ state'.total_supply = state.total_supply - result'.amount
          /\ state'.total_burned = state.total_burned + result'.amount]_vars

\* |a - b|
AbsDiff(a, b) == IF a > b THEN a - b ELSE b - a

\* C8: set_w3b_price by an operator rejects 0 with InvalidPrice; while a
\* price is set it rejects a new price with |new - old| > old \div 5 with
\* PriceChangeExceedsLimit; otherwise (any positive price while none is set)
\* it stores the new price; a rejected call writes nothing.
\* set_w3b_price_admin by the authority stores any value.
C8_PriceBounds ==
  [][/\ (Step("set_w3b_price") /\ OperatorOnly(result'.caller) = "Ok")
        => IF result'.amount = 0
           THEN result'.err = "InvalidPrice" /\ NoWrites
           ELSE IF /\ state.w3b_price_lamports > 0
                   /\ AbsDiff(result'.amount, state.w3b_price_lamports)
                        > state.w3b_price_lamports \div 5
           THEN result'.err = "PriceChangeExceedsLimit" /\ NoWrites
           ELSE /\ result'.err = "Ok"
                /\ state' = [state EXCEPT !.w3b_price_lamports = result'.amount]
     /\ (Step("set_w3b_price_admin") /\ AdminOnly(result'.caller) = "Ok")
        => /\ result'.err = "Ok"
           /\ state' = [state EXCEPT !.w3b_price_lamports = result'.amount]]_vars

\* From 119 (itself within 20% of 100) a set_w3b_price(200) has been refused
C8_Witness ==
  /\ result.op = "set_w3b_price" /\ result.amount = 200
  /\ result.err = "PriceChangeExceedsLimit"
  /\ state.w3b_price_lamports = 119

OperatorGated ==
  {"update_merkle_root", "submit_proof", "set_w3b_price", "mint_w3b", "confirm_delivery"}

AuthorityGated ==
  {"set_operator", "set_paused", "set_w3b_price_admin", "cancel_redemption"}

\* C9 (as stated): a guarded instruction signed by someone without the
\* capability fails with Unauthorized and writes nothing; operator-gated
\* instructions are refused for exactly the signers that are neither operator
\* nor authority, authority-gated ones for exactly the signers other than the
\* authority.  (For the two fulfillment instructions the request is one the
\* instruction applies to, so that the signer is the call's only defect.)
C9_UnauthorizedRejected ==
  [][(/\ Idle
      /\ result'.op = "confirm_delivery" =>
           StepKey \in DOMAIN requests /\ requests[StepKey].status = Claimed
      /\ result'.op = "cancel_redemption" =>
           StepKey \in DOMAIN requests /\ requests[StepKey].status \in {Pending, Claimed})
     => /\ (result'.op \in OperatorGated /\ ~IsOperator(result'.caller))
           => result'.err = "Unauthorized" /\ NoWrites
        /\ (result'.op \in OperatorGated /\ IsOperator(result'.caller))
           => result'.err # "Unauthorized"
        /\ (result'.op \in AuthorityGated /\ ~IsAuthority(result'.caller))
           => result'.err = "Unauthorized" /\ NoWrites
        /\ (result'.op \in AuthorityGated /\ IsAuthority(result'.caller))
           => result'.err # "Unauthorized"]_vars

\* C10: submit_proof by an operator succeeds exactly when claimed_reserves
\* equals proven_reserves, and then writes last_proof_timestamp = now and
\* nothing else; with any other count it fails with ReserveCountMismatch and
\* writes nothing.
C10_ProofMatchesReserves ==
  [][(Step("submit_proof") /\ OperatorOnly(result'.caller) = "Ok")
     => IF result'.amount = state.proven_reserves
        THEN /\ result'.err = "Ok"
             /\ state' = [state EXCEPT !.last_proof_timestamp = now]
             /\ profiles' = profiles /\ requests' = requests
        ELSE result'.err = "ReserveCountMismatch" /\ NoWrites]_vars

\* A proof claiming 60 against 100 attested reserves has been refused
C10_Witness ==
  /\ result.op = "submit_proof" /\ result.amount = 60
  /\ result.err = "ReserveCountMismatch"
  /\ state.proven_reserves = 100

\* C11: the token program's mint_to and the total_supply update are one
\* atomic step: a mint that fails (the refused mint_to included) writes
\* nothing and emits no TokensMinted; a mint that succeeds raises
\* total_supply by exactly amount and emits TokensMinted.
C11_MintAtomic ==
  [][Step("mint_w3b") =>
       /\ result'.err = "Ok" =>
            /\ state' = [state EXCEPT !.total_supply = @ + result'.amount]
            /\ result'.event = "TokensMinted"
       /\ result'.err # "Ok" => NoWrites /\ result'.event = "none"]_vars

\* The token program has refused a mint that every check of the handler let
\* through
C11_Witness ==
  /\ result.op = "mint_w3b" /\ result.err = "TokenProgramError"
  /\ result.amount > 0
  /\ state.total_supply + result.amount <= state.proven_reserves

\* C12: a buy whose accounts load succeeds only if the record is not paused,
\* the price is nonzero, amount <= 1000 and price * amount fits u64; the
\* first violated precondition, in that order, yields ProtocolPaused,
\* PriceNotSet, ExceedsTransactionCap or MathOverflow; any failing buy, a
\* refused transfer included, writes nothing (no points) and emits no
\* TokensPurchased; a successful buy adds amount to the points and the
\* volume of the profile passed, and no buy changes the protocol record.
C12_BuyPreconditions ==
  [][Step("buy_w3b") =>
       /\ state' = state /\ requests' = requests
       /\ result'.err # "Ok" => NoWrites /\ result'.event = "none"
       /\ result'.err = "Ok" =>
            /\ state.is_paused = 0
            /\ state.w3b_price_lamports > 0
            /\ result'.amount <= 1000
            /\ (result'.amount = 0
                  \/ state.w3b_price_lamports <= U64_MAX \div result'.amount)
            /\ result'.event = "TokensPurchased"
            /\ \A u \in DOMAIN profiles :
                 \/ profiles'[u] = profiles[u]
                 \/ /\ u = result'.caller
                    /\ profiles'[u].points = SaturatingAdd(profiles[u].points, result'.amount)
                    /\ profiles'[u].total_volume =
                         SaturatingAdd(profiles[u].total_volume, result'.amount)
       /\ result'.err \notin {"AccountNotInitialized", "AccountDidNotDeserialize",
                              "ConstraintSeeds", "ConstraintHasOne", "ConstraintTokenMint"}
          => result'.err =
               IF state.is_paused = 1 THEN "ProtocolPaused"
               ELSE IF state.w3b_price_lamports = 0 THEN "PriceNotSet"
               ELSE IF result'.amount > 1000 THEN "ExceedsTransactionCap"
               ELSE IF state.w3b_price_lamports > U64_MAX \div result'.amount
                    THEN "MathOverflow"
               ELSE result'.err]_vars

\* A purchase of 1000 at the largest price has been refused for overflow
C12_Witness ==
  /\ result.op = "buy_w3b" /\ result.err = "MathOverflow"
  /\ result.amount = 1000 /\ state.w3b_price_lamports = U64_MAX
  /\ ALICE \in DOMAIN profiles

Bronze == 0
Silver == 1
Gold == 2
Platinum == 3

\* The tier the documented thresholds assign to a point balance
TierOf(points) ==
  IF points > 2000 THEN Platinum
  ELSE IF points > 500 THEN Gold
  ELSE IF points > 100 THEN Silver
  ELSE Bronze

\* The profile of the signer was passed to the instruction and written
ProfileWritten(user) ==
  user \in DOMAIN profiles /\ profiles'[user] # profiles[user]

\* C13 (as stated): on a profile with points = 0 and tier Bronze a buy of 150
\* leaves points = 150 and tier Silver, and a following burn of 400 leaves
\* points = 950 and tier Gold.
C13_BuyThenBurnScenario ==
  [][/\ (/\ Step("buy_w3b") /\ result'.err = "Ok" /\ result'.amount = 150
         /\ ProfileWritten(ALICE)
         /\ profiles[ALICE].points = 0 /\ profiles[ALICE].tier = Bronze)
        => profiles'[ALICE].points = 150 /\ profiles'[ALICE].tier = Silver
     /\ (/\ Step("burn_w3b") /\ result'.err = "Ok" /\ result'.amount = 400
         /\ ProfileWritten(ALICE)
         /\ profiles[ALICE].points = 150 /\ profiles[ALICE].tier = Silver)
        => profiles'[ALICE].points = 950 /\ profiles'[ALICE].tier = Gold]_vars

\* C14 (as stated): in every reachable state the tier of every profile is
\* the threshold function of its points.
C14_TierFollowsPoints ==
  \A u \in DOMAIN profiles : profiles[u].tier = TierOf(profiles[u].points)

\* C15: the points and the tier of a profile never decrease, no profile is
\* ever removed, and adding points never fails an instruction: award_points
\* and confirm_delivery never end in MathOverflow, buy_w3b and burn_w3b only
\* for their price and ledger arithmetic; at U64_MAX the points stay there.
C15_PointsMonotone ==
  [][/\ \A u \in DOMAIN profiles :
          /\ u \in DOMAIN profiles'
          /\ profiles'[u].points >= profiles[u].points
          /\ profiles'[u].tier >= profiles[u].tier
          /\ profiles'[u].points <= U64_MAX
     /\ (/\ Idle /\ result'.err = "MathOverflow"
         /\ result'.op \in {"buy_w3b", "burn_w3b", "confirm_delivery", "award_points"}) =>
          \/ /\ result'.op = "buy_w3b"
             /\ state.w3b_price_lamports > U64_MAX \div result'.amount
          \/ /\ result'.op = "burn_w3b"
             /\ \/ result'.amount > state.total_supply
                \/ result'.amount > U64_MAX - state.total_burned
     /\ (/\ Idle /\ result'.op \in {"buy_w3b", "burn_w3b", "confirm_delivery"}
         /\ result'.err = "Ok" /\ ProfileWritten(ALICE)
         /\ profiles[ALICE].points = U64_MAX)
        => profiles'[ALICE].points = U64_MAX]_vars

\* A burn with the profile passed has succeeded on a balance already saturated
C15_Witness ==
  /\ result.op = "burn_w3b" /\ result.err = "Ok"
  /\ ALICE \in DOMAIN profiles
  /\ profiles[ALICE].points = U64_MAX
  /\ profiles[ALICE].total_redeemed = result.amount + 400
  /\ profiles[ALICE].tier > Bronze

\* C16 (as stated): a successful burn with the profile passed leaves
\* points' = min(U64_MAX, points + 2 * amount) for every amount, and
\* total_redeemed' = min(U64_MAX, total_redeemed + amount).
C16_DoublePointsSaturate ==
  [][(Step("burn_w3b") /\ result'.err = "Ok" /\ ProfileWritten(result'.caller))
     => LET p == profiles[result'.caller]
            q == profiles'[result'.caller]
        IN /\ q.points = IF result'.amount <= (U64_MAX - p.points) \div 2
                         THEN p.points + 2 * result'.amount
                         ELSE U64_MAX
           /\ q.total_redeemed = IF result'.amount <= U64_MAX - p.total_redeemed
                                 THEN p.total_redeemed + result'.amount
                                 ELSE U64_MAX]_vars

\* C17: a burn whose token-program burn fails, whose amount exceeds
\* total_supply or whose amount overflows total_burned fails and writes
\* nothing; every failed burn writes nothing (no counter, no request, no
\* points); a successful burn lowers total_supply and raises total_burned by
\* exactly the amount, within u64, and changes no other field of the state.
C17_BurnAfterExternalBurn ==
  [][/\ \A k \in BurnKeys, amount \in BurnAmounts, with_profile \in BOOLEAN :
          (Idle /\ burn_w3b(k[1], amount, k[2], with_profile, FALSE))
          => result'.err # "Ok" /\ NoWrites
     /\ Step("burn_w3b") =>
          /\ (\/ result'.amount > state.total_supply
              \/ result'.amount > U64_MAX - state.total_burned)
             => result'.err # "Ok"
          /\ result'.err # "Ok" => NoWrites
          /\ result'.err = "Ok" =>
               /\ state' = [state EXCEPT
                              !.total_supply = state.total_supply - result'.amount,
                              !.total_burned = state.total_burned + result'.amount]
               /\ state'.total_supply >= 0
               /\ state'.total_burned <= U64_MAX
               /\ <<result'.caller, result'.id>> \in DOMAIN requests'
                                                     \ DOMAIN requests]_vars

\* A burn that the supply covers has been refused because total_burned would
\* overflow, after an earlier burn succeeded
C17_Witness ==
  /\ result.op = "burn_w3b" /\ result.err = "MathOverflow"
  /\ result.amount <= state.total_supply
  /\ result.amount > U64_MAX - state.total_burned
  /\ requests # NoRequests
  /\ <<result.caller, result.id>> \notin DOMAIN requests

\* C18: a successful burn adds exactly one request, under the key (signer,
\* request_id), Pending, with the burned amount and no fulfiller, and leaves
\* every other request as it was; a burn under an existing key fails and
\* writes nothing; a burn under a new key is never refused for its key, even
\* when another signer already used the same request_id.
C18_OneRequestPerKey ==
  [][Step("burn_w3b") =>
       LET key == <<result'.caller, result'.id>> IN
       /\ result'.err = "Ok" =>
            /\ key \notin DOMAIN requests
            /\ DOMAIN requests' = DOMAIN requests \cup {key}
            /\ \A k \in DOMAIN requests : requests'[k] = requests[k]
            /\ requests'[key].user = result'.caller
            /\ requests'[key].request_id = result'.id
            /\ requests'[key].amount = result'.amount
            /\ requests'[key].status = Pending
            /\ requests'[key].fulfiller = DefaultKey
       /\ key \in DOMAIN requests =>
            /\ result'.err = "AccountAlreadyInUse"
            /\ NoWrites
       /\ key \notin DOMAIN requests => result'.err # "AccountAlreadyInUse"]_vars

\* Two signers hold requests under the same request_id, and a burn reusing
\* one of the keys has been refused
C18_Witness ==
  /\ result.op = "burn_w3b" /\ result.err = "AccountAlreadyInUse"
  /\ result.caller = BOB /\ result.id = 1
  /\ {<<ALICE, 1>>, <<BOB, 1>>} \subseteq DOMAIN requests
  /\ requests[<<BOB, 1>>].amount # result.amount

\* The profile of the fulfiller with the reward of one confirmed delivery
Rewarded(fulfiller) ==
  [profiles EXCEPT ![fulfiller].points = @ + 5,
                   ![fulfiller].total_fulfilled = @ + 1]

\* C19 (as stated): a successful confirm_delivery adds 5 points and 1 to
\* total_fulfilled on the profile of the recorded fulfiller whenever that
\* profile exists, and changes no profile otherwise.
C19_RewardIfProfileExists ==
  [][(Step("confirm_delivery") /\ result'.err = "Ok") =>
       LET fulfiller == requests[StepKey].fulfiller IN
       profiles' = IF fulfiller \in DOMAIN profiles THEN Rewarded(fulfiller)
                   ELSE profiles]_vars

\* C19: confirm_delivery succeeds only on a Claimed request and then changes
\* exactly its status to Confirmed and confirmed_at to the clock; when the
\* caller passes the profile of the recorded fulfiller, that profile (which
\* must exist) gains 5 points and 1 total_fulfilled and no other profile
\* changes; when the caller passes none, no profile changes, whether or not
\* the fulfiller has one; a failed confirm_delivery writes nothing.
C19_ConfirmDelivery ==
  [][/\ Step("confirm_delivery") =>
          /\ result'.err # "Ok" => NoWrites
          /\ (StepKey \in DOMAIN requests /\ requests[StepKey].status # Claimed)
             => result'.err # "Ok"
          /\ result'.err = "Ok" =>
               /\ requests[StepKey].status = Claimed
               /\ requests' = [requests EXCEPT ![StepKey].status = Confirmed,
                                               ![StepKey].confirmed_at = now]
               /\ state' = state
               /\ \/ profiles' = profiles
                  \/ /\ requests[StepKey].fulfiller \in DOMAIN profiles
                     /\ profiles' = Rewarded(requests[StepKey].fulfiller)
     /\ \A c \in {AUTHORITY, ALICE}, k \in FulfillKeys :
          /\ (Idle /\ confirm_delivery(c, k, TRUE) /\ result'.err = "Ok")
             => /\ requests[k].fulfiller \in DOMAIN profiles
                /\ profiles' = Rewarded(requests[k].fulfiller)
                /\ profiles' # profiles
          /\ (Idle /\ confirm_delivery(c, k, FALSE))
             => /\ profiles' = profiles
                /\ (requests' # requests <=> result'.err = "Ok")
          /\ (Idle /\ confirm_delivery(c, k, TRUE)
               /\ k \in DOMAIN requests /\ requests[k].fulfiller \notin DOMAIN profiles)
             => result'.err # "Ok"]_vars

\* A delivery has been confirmed with the fulfiller's profile passed, while
\* the requester has a profile too and the clock has moved since the claim
C19_Witness ==
  /\ result.op = "confirm_delivery" /\ result.err = "Ok"
  /\ {ALICE, BOB} \subseteq DOMAIN profiles
  /\ profiles[BOB].points = 5 /\ profiles[BOB].total_fulfilled = 1
  /\ profiles[ALICE].points = 0
  /\ LET req == requests[<<result.target, result.id>>] IN
       /\ req.status = Confirmed /\ req.fulfiller = BOB
       /\ req.confirmed_at = now /\ req.confirmed_at > req.claimed_at

\* C20: cancel_redemption leaves the protocol state (total_supply,
\* total_burned, proven_reserves and the rest) and every profile as they
\* were; when it succeeds the request was Pending or Claimed and only its
\* status changes, to Cancelled; when it fails the requests are unchanged too.
C20_CancelOnlyStatus ==
  [][Step("cancel_redemption") =>
       /\ state' = state
       /\ profiles' = profiles
       /\ result'.err # "Ok" => requests' = requests
       /\ result'.err = "Ok" =>
            /\ requests[StepKey].status \in {Pending, Claimed}
            /\ requests' = [requests EXCEPT ![StepKey].status = Cancelled]]_vars

\* A claimed request has been cancelled: its amount stays burned and its
\* requester and fulfiller stay recorded, with both profiles present
C20_Witness ==
  /\ result.op = "cancel_redemption" /\ result.err = "Ok"
  /\ {ALICE, BOB} \subseteq DOMAIN profiles
  /\ LET req == requests[<<result.target, result.id>>] IN
       /\ req.status = Cancelled /\ req.fulfiller = BOB
       /\ req.user = ALICE /\ req.amount = FulfillAmount
  /\ state.total_burned >= FulfillAmount
  /\ state.total_supply = U64_MAX - 1 - state.total_burned

\* C21: a successful fix_v2_layout leaves every field of the V1 layout, read
\* at its V2 offset, with the value the buffer held at the V1 offset; the
\* discriminator and the length are kept, operator equals authority, and
\* total_burned, the yield fields, the reserved bytes and the tail are zero.
C21_MigrationRoundTrip ==
  [][(Step("fix_v2_layout") /\ result'.err = "Ok") =>
       LET old == DecodeV1(state.data)
           new == DecodeV2(state'.data)
       IN /\ Len(state.data) >= 268
          /\ Len(state'.data) = Len(state.data)
          /\ Slice(state'.data, 0, 8) = Slice(state.data, 0, 8)
          /\ new.authority = old.authority
          /\ new.operator = old.authority
          /\ new.w3b_mint = old.w3b_mint
          /\ new.treasury = old.treasury
          /\ new.current_merkle_root = old.current_merkle_root
          /\ new.last_root_update = old.last_root_update
          /\ new.last_proof_timestamp = old.last_proof_timestamp
          /\ new.proven_reserves = old.proven_reserves
          /\ new.total_supply = old.total_supply
          /\ new.is_paused = old.is_paused
          /\ new.bump = old.bump
          /\ new.w3b_price_lamports = old.w3b_price_lamports
          /\ new.sol_receiver = old.sol_receiver
          /\ new.total_burned = 0
          /\ new.yield_apy_bps = 0
          /\ new.total_yield_distributed = 0
          /\ new.last_yield_distribution = 0
          /\ Slice(state'.data, 268, Len(state.data)) = Zeros(Len(state.data) - 268)
          /\ state'.lamports = state.lamports]_vars

\* A resized V1 record with distinct values in its fields has been remapped
\* and reads back through the V2 layout with those values
C21_Witness ==
  /\ result.op = "fix_v2_layout" /\ result.err = "Ok"
  /\ Len(state.data) = NEW_SIZE
  /\ LET new == DecodeV2(state.data) IN
       /\ new.authority = AUTHORITY /\ new.operator = AUTHORITY
       /\ new.w3b_mint = W3B_MINT /\ new.treasury = TREASURY
       /\ new.current_merkle_root = RootA
       /\ new.last_root_update = T0 - 2 /\ new.last_proof_timestamp = T0 - 1
       /\ new.proven_reserves = 100 /\ new.total_supply = 60
       /\ new.is_paused = 1 /\ new.bump = BUMP
       /\ new.w3b_price_lamports = 5 /\ new.sol_receiver = HOT

\* The buffer is a resized V1 record that the remap has already rewritten
Remapped(data) ==
  \E v \in V1Records : data = FixV2Layout(Realloc(EncodeV1(v), NEW_SIZE))

\* C22 (as stated): fix_v2_layout invoked on a record that has already been
\* remapped leaves the record as it is.
C22_RemapReentrant ==
  [][(Step("fix_v2_layout") /\ Remapped(state.data)) => state'.data = state.data]_vars

\* C23: migrate_v2 and fix_v2_layout end in Unauthorized exactly when the
\* buffer is too short to hold the identity at offset 8..40 or the signer
\* differs from those 32 bytes, whatever the other bytes of the buffer are
\* (V1 layout, V2 layout, remapped once or several times); a call refused as
\* Unauthorized leaves bytes, length, lamports and wallets as they were.
C23_RawIdentityCheck ==
  [][(Step("migrate_v2") \/ Step("fix_v2_layout")) =>
       /\ result'.err = "Unauthorized"
            <=> \/ Len(state.data) < 40
                \/ Slice(state.data, 8, 40) # result'.caller
       /\ result'.err = "Unauthorized" => state' = state]_vars

\* The record written by initialize_v2, which is not in the V1 layout, has
\* been resized by its authority
C23_Witness ==
  /\ result.op = "migrate_v2" /\ result.err = "Ok"
  /\ result.caller = AUTHORITY
  /\ Len(state.data) = NEW_SIZE
  /\ DecodeV2(state.data) = InitializeV2State

\* C24: a successful migrate_v2 leaves the record NEW_SIZE bytes long with
\* at least the rent-exempt balance of that size; the record gained exactly
\* its shortfall and the signer's wallet lost exactly that, no other wallet
\* changed; the bytes kept are unchanged and the bytes added are zero.  When
\* the signer does not hold the shortfall the call fails, and every failed
\* call leaves bytes, length, lamports and wallets as they were.
C24_ResizeWithBacking ==
  [][Step("migrate_v2") =>
       LET min_rent == MinimumBalance(NEW_SIZE)
           signer == result'.caller
           kept == IF Len(state.data) < NEW_SIZE THEN Len(state.data) ELSE NEW_SIZE
       IN
       /\ result'.err # "Ok" => state' = state
       /\ (/\ state.lamports < min_rent
           /\ state.wallets[signer] < min_rent - state.lamports)
          => result'.err # "Ok"
       /\ result'.err = "Ok" =>
            /\ Len(state'.data) = NEW_SIZE
            /\ state'.lamports >= min_rent
            /\ state'.lamports = IF state.lamports < min_rent THEN min_rent
                                 ELSE state.lamports
            /\ state'.wallets[signer] =
                 state.wallets[signer] - (state'.lamports - state.lamports)
            /\ \A c \in RawCallers \ {signer} : state'.wallets[c] = state.wallets[c]
            /\ \A i \in 1..kept : state'.data[i] = state.data[i]
            /\ \A i \in (kept + 1)..NEW_SIZE : state'.data[i] = 0]_vars

\* A V1 record short of the rent of the new size has been resized: the
\* signer paid the shortfall and the record holds exactly the minimum
C24_Witness ==
  /\ result.op = "migrate_v2" /\ result.err = "Ok"
  /\ state.lamports = MinimumBalance(NEW_SIZE)
  /\ state.wallets[AUTHORITY] = MinimumBalance(V1_SPACE)
  /\ state.wallets[ALICE] = MinimumBalance(NEW_SIZE)
  /\ Len(state.data) = NEW_SIZE
  /\ DecodeV1(state.data).total_supply = 60
  /\ Slice(state.data, V1_SPACE, NEW_SIZE) = Zeros(NEW_SIZE - V1_SPACE)

\* C25 (as stated): every successful instruction emits exactly one event and
\* every failed instruction emits none.
C25_OneEventPerOperation ==
  [][(Idle /\ result'.op # "none") =>
       (result'.event # "none" <=> result'.err = "Ok")]_vars

C27_SupplyConservation ==
  /\ state.total_supply = 0 /\ state.total_burned = 0
  /\ [][LET minted == state'.total_supply - state.total_supply
             burned == state'.total_burned - state.total_burned
         IN IF Step("mint_w3b") /\ result'.err = "Ok"
            THEN minted = result'.amount /\ burned = 0
            ELSE IF Step("burn_w3b") /\ result'.err = "Ok"
            THEN minted = 0 - result'.amount /\ burned = result'.amount
            ELSE minted = 0 /\ burned = 0]_vars

\* After a mint, a burn of the whole supply and a second mint the two
\* counters add up to the two mints, more than one u64 holds
C27_Witness ==
  /\ result.op = "mint_w3b" /\ result.err = "Ok"
  /\ state.total_supply = U64_MAX - 1
  /\ state.total_burned = U64_MAX - 1
  /\ DOMAIN requests # {}

RECURSIVE SumAmounts(_)
\* The sum of the amounts of the requests under `keys`
SumAmounts(keys) ==
  IF keys = {} THEN 0
  ELSE LET k == CHOOSE x \in keys : TRUE
       IN requests[k].amount + SumAmounts(keys \ {k})

\* C28 (as stated): total_burned is the sum of the amounts of all requests
\* created so far, whatever their status.
C28_BurnedEqualsRequests ==
  state.total_burned = SumAmounts(DOMAIN requests)

C30_SmallPriceFrozen ==
  [][/\ Step("set_w3b_price") =>
          LET current == state.w3b_price_lamports
              price == result'.amount
              accounts_ok == OperatorOnly(result'.caller) = "Ok"
          IN /\ current \in 1..4 =>
                  /\ result'.err = "Ok" <=> (accounts_ok /\ price = current)
                  /\ (accounts_ok /\ price > 0 /\ price # current)
                     => result'.err = "PriceChangeExceedsLimit"
                  /\ state' = state
             /\ (current = 0 /\ price > 0 /\ accounts_ok)
                => result'.err = "Ok" /\ state'.w3b_price_lamports = price
     /\ (/\ state.w3b_price_lamports \in 1..4
         /\ state'.w3b_price_lamports # state.w3b_price_lamports)
        => Step("set_w3b_price_admin")]_vars

\* With the price at 4 the operator's step to 5 has been refused
C30_Witness ==
  /\ result.op = "set_w3b_price" /\ result.err = "PriceChangeExceedsLimit"
  /\ result.amount = 5 /\ state.w3b_price_lamports = 4
  /\ result.caller = HOT /\ state.operator = HOT

\* C31: in the V1 program a mint_w3b that succeeds found the protocol not
\* paused and custody_proven_by_oracle >= mint.supply + amount with that sum
\* within u64, and it adds exactly amount to total_minted (and to the supply
\* of the mint passed); a mint_w3b that fails for any reason, ProtocolPaused,
\* MathOverflow at either addition, InsufficientReserves or a refused
\* mint_to, leaves total_minted and everything else as it was.
C31_V1MintGuard ==
  [][Step("mint_w3b_v1") =>
       LET mint == result'.target
           amount == result'.amount
           custody == result'.id
       IN
       /\ result'.err = "Ok" =>
            /\ state.protocol_state # NoProtocolState
            /\ ~state.protocol_state.is_paused
            /\ state.supply[mint] <= U64_MAX - amount
            /\ custody >= state.supply[mint] + amount
            /\ state'.protocol_state.total_minted
                 = state.protocol_state.total_minted + amount
            /\ state'.protocol_state.total_minted <= U64_MAX
            /\ state' = [state EXCEPT !.supply[mint] = @ + amount,
                                      !.protocol_state.total_minted = @ + amount]
       /\ result'.err # "Ok" => NoWrites
       /\ result'.err \in {"Ok", "AccountNotInitialized", "ProtocolPaused",
                           "MathOverflow", "InsufficientReserves", "MintToFailed"}]_vars

\* A mint onto the second mint has succeeded with custody exactly at the
\* supply it needs, after an earlier mint onto the first one, so that
\* total_minted is ahead of the supply the check looked at
C31_Witness ==
  /\ result.op = "mint_w3b_v1" /\ result.err = "Ok"
  /\ result.target = OTHER_MINT /\ result.amount = 2
  /\ result.id = state.supply[OTHER_MINT]
  /\ state.supply[W3B_MINT] = 2
  /\ state.protocol_state.total_minted = state.supply[OTHER_MINT] + 2
  /\ ~state.protocol_state.is_paused

====
